---- MODULE Spec2Model ----
(***************************************************************************)
(* A model of dockster's extraction pipeline (src/app.py): the response    *)
(* parsing repeated in every extraction path, the PDF and DOCX extractors, *)
(* the dispatch in main(), the session store and the TXT/CSV export.       *)
(*                                                                         *)
(* Strings are sequences.  A raw model reply is a sequence of lexical      *)
(* tokens (see Alphabet); texts are sequences of string pieces, so that    *)
(* Python's string concatenation is sequence concatenation; table titles   *)
(* are sequences of characters, so that the file name sanitisation can be  *)
(* computed character by character.                                       *)
(***************************************************************************)
EXTENDS Integers, Sequences, FiniteSets, TLC

VARIABLES
    pc,                \* position of the script: idle, call, parse, store
                       \* (crashed: an exception left the script)
    path,              \* the branch of main()'s if/elif chain that is running
    prompt,            \* the prompt handed to get_gemini_response
    file_extension,    \* os.path.splitext(uploaded_file.name)[1].lower()
    n_units,           \* len(pdf_document) or len(image_parts); 1 for an image
    idx,               \* page_num / i of the running loop (0-based)
    response_text,     \* the value get_gemini_response returned for the unit
    aggregated_text,   \* extract_data_from_pdf's local
    aggregated_tables, \* extract_data_from_pdf's local
    full_text,         \* extract_data_from_docx's local (a list of strings)
    all_tables_data,   \* extract_data_from_docx's local
    text_result,       \* main's local
    table_result,      \* main's local
    stored,            \* 'extracted_text' in st.session_state
    extracted_text,    \* st.session_state.extracted_text
    extracted_tables,  \* st.session_state.extracted_tables
    txt_content,       \* the TXT download built by the last script run
    csv_files,         \* the CSV download buttons built by the last script run
    messages,          \* st.error / st.warning calls of the running script run
    uncaught,          \* the exception that left the script, "none" if none
    calls,             \* history: the units handed to model.generate_content
    outcomes,          \* history: what each unit of the run produced
    overwrote,         \* history: the store just made replaced a non-empty result
    doc_tables,        \* doc.tables of the uploaded DOCX (each a list of rows)
    doc_paragraphs,    \* [para.text for para in doc.paragraphs]
    raw,               \* input of the stand-alone parsing specification
    parsed             \* its result

vars == <<pc, path, prompt, file_extension, n_units, idx, response_text, aggregated_text,
          aggregated_tables, full_text, all_tables_data, text_result,
          table_result, stored, extracted_text, extracted_tables, txt_content,
          csv_files, messages, uncaught, calls, outcomes, overwrote,
          doc_tables,
          doc_paragraphs, raw, parsed>>

-----------------------------------------------------------------------------
(* Bounds of the model.                                                    *)

MaxLen == 5        \* longest raw reply of the parsing specification
MaxPages == 2      \* most pages of a PDF
MaxTables == 2     \* most native tables of a DOCX
MaxImages == 2     \* most embedded images of a DOCX
SessionUnits == 1  \* most pages, images, native tables where runs follow runs

-----------------------------------------------------------------------------
(* Raw model replies.                                                      *)
(*   "{"  "}"  ","   the JSON punctuation the parser looks for             *)
(*   "T"   the member  "text": "Hello"                                     *)
(*   "t"   the member  "text": ""                                          *)
(*   "B"   the member  "table": [["A","B"],["1","2"]]                      *)
(*   "H"   the member  "table": [["A","B"]]                                *)
(*   "J"   the member  "table": [["A","B"],["1","2","3"]]                  *)
(*   "b"   the member  "table": []                                         *)
(*   "k"   the key  "k":  of a member whose value is a nested object       *)
(*   "x"   prose: any run of characters that holds no brace and no JSON    *)

Alphabet == {"{", "}", ",", "T", "t", "B", "H", "J", "b", "k", "x"}

\* The tokens of the replies the parsing specification enumerates.
ParseAlphabet == {"{", "}", ",", "T", "t", "B", "b", "k", "x"}

None == <<"None">>          \* Python's None (no reply is this sequence)

Hello == <<"Hello">>                             \* the text of member T
RectTable == <<<<"A", "B">>, <<"1", "2">>>>      \* the table of member B
HeaderTable == <<<<"A", "B">>>>                  \* the table of member H
JaggedTable == <<<<"A", "B">>, <<"1", "2", "3">>>>  \* the table of member J

\* str.find: the 0-based index of the first occurrence, -1 if there is none.
Find(s, c) ==
    IF \E i \in 1..Len(s) : s[i] = c
    THEN (CHOOSE i \in 1..Len(s) : s[i] = c /\ \A j \in 1..(i-1) : s[j] # c) - 1
    ELSE -1

\* A wrong rfind: the first occurrence instead of the last.
RFindFirst(s, c) == Find(s, c)

\* str.rfind: the 0-based index of the last occurrence, -1 if there is none.
RFind(s, c) ==
    IF \E i \in 1..Len(s) : s[i] = c
    THEN (CHOOSE i \in 1..Len(s) : s[i] = c /\ \A j \in (i+1)..Len(s) : s[j] # c) - 1
    ELSE -1

\* s[a:b] for 0 <= a and 0 <= b (empty when b <= a).
Slice(s, a, b) ==
    LET hi == IF b > Len(s) THEN Len(s) ELSE b
    IN  IF hi <= a THEN <<>> ELSE SubSeq(s, a + 1, hi)

\* json.loads of a token sequence.  A document is one object:
\*     object ::= "{" [ member ( "," member )* ] "}"
\*     member ::= "T" | "t" | "B" | "H" | "J" | "b" | "k" object
\* The result holds the top-level members "text" and "table"; a repeated key
\* keeps its last value, as Python's dict does.
EmptyDict == [keys |-> {}, text |-> <<>>, table |-> <<>>]

SetText(d, v) == [d EXCEPT !.keys = @ \cup {"text"}, !.text = v]
SetTable(d, v) == [d EXCEPT !.keys = @ \cup {"table"}, !.table = v]

WithMember(d, tok) ==
    CASE tok = "T" -> SetText(d, Hello)
      [] tok = "t" -> SetText(d, <<>>)
      [] tok = "B" -> SetTable(d, RectTable)
      [] tok = "H" -> SetTable(d, HeaderTable)
      [] tok = "J" -> SetTable(d, JaggedTable)
      [] tok = "b" -> SetTable(d, <<>>)
      [] OTHER -> d

DecodeError == [ok |-> FALSE, pos |-> 0, obj |-> EmptyDict]

RECURSIVE ParseObject(_, _), ParseMembers(_, _, _)
\* An object starting at s[i]; pos is the index after its closing brace.
ParseObject(s, i) ==
    IF i > Len(s) \/ s[i] # "{" THEN DecodeError
    ELSE IF i + 1 <= Len(s) /\ s[i + 1] = "}"
         THEN [ok |-> TRUE, pos |-> i + 2, obj |-> EmptyDict]
         ELSE ParseMembers(s, i + 1, EmptyDict)

\* The members from s[i] on, d holding the members read so far.
ParseMembers(s, i, d) ==
    IF i > Len(s) THEN DecodeError
    ELSE
      LET m == IF s[i] \in {"T", "t", "B", "H", "J", "b"}
               THEN [ok |-> TRUE, pos |-> i + 1, obj |-> WithMember(d, s[i])]
               ELSE IF s[i] = "k"
               THEN LET v == ParseObject(s, i + 1)
                    IN  [ok |-> v.ok, pos |-> v.pos, obj |-> d]
               ELSE DecodeError
      IN  IF ~m.ok \/ m.pos > Len(s) THEN DecodeError
          ELSE IF s[m.pos] = "}" THEN [ok |-> TRUE, pos |-> m.pos + 1, obj |-> m.obj]
          ELSE IF s[m.pos] = "," THEN ParseMembers(s, m.pos + 1, m.obj)
          ELSE DecodeError

\* json.loads: the object, or JSONDecodeError (also for trailing data and
\* for the empty string).
JsonLoads(s) ==
    LET r == ParseObject(s, 1)
    IN  IF r.ok /\ r.pos = Len(s) + 1
        THEN [raised |-> "none", obj |-> r.obj]
        ELSE [raised |-> "JSONDecodeError", obj |-> EmptyDict]

\* data.get("text", default) and data.get("table", default)
GetText(d, default) == IF "text" \in d.keys THEN d.text ELSE default
GetTable(d, default) == IF "table" \in d.keys THEN d.table ELSE default

\* The parsing every path repeats: find('{'), rfind('}'), json.loads of the
\* slice, data.get("text", ""), data.get("table", []).  found tells whether
\* the branch guarded by "start_index != -1 and end_index != -1" ran.
ParseResponse(s) ==
    LET start_index == Find(s, "{")
        end_index == RFind(s, "}")
    IN  IF start_index # -1 /\ end_index # -1
        THEN LET data == JsonLoads(Slice(s, start_index, end_index + 1))
             IN  IF data.raised # "none"
                 THEN [raised |-> data.raised, found |-> TRUE,
                       text |-> <<>>, table |-> <<>>]
                 ELSE [raised |-> "none", found |-> TRUE,
                       text |-> GetText(data.obj, <<>>),
                       table |-> GetTable(data.obj, <<>>)]
        ELSE [raised |-> "none", found |-> FALSE, text |-> <<>>, table |-> <<>>]

-----------------------------------------------------------------------------
(* Texts and titles.                                                       *)

\* str(n) as a sequence of characters.
DigitChar == <<"0", "1", "2", "3", "4", "5", "6", "7", "8", "9">>

RECURSIVE Digits(_)
Digits(n) ==
    IF n < 10 THEN <<DigitChar[n + 1]>>
    ELSE Digits(n \div 10) \o <<DigitChar[(n % 10) + 1]>>

\* f"\n\n--- Page {page_num + 1} ---\n{page_text}"
PageSection(page_num, page_text) ==
    <<"\n\n--- Page ", ToString(page_num + 1), " ---\n">> \o page_text

\* f"\n--- Text from Embedded Image {i + 1} ---\n{img_text}"
ImageSection(i, img_text) ==
    <<"\n--- Text from Embedded Image ", ToString(i + 1), " ---\n">> \o img_text

\* A wrong title: the 0-based page number.
PageTitleZeroBased(page_num) ==
    <<"T","a","b","l","e"," ","f","r","o","m"," ","P","a","g","e"," ">>
        \o Digits(page_num)

\* A wrong title: no page number.
PageTitleUnnumbered(page_num) ==
    <<"T","a","b","l","e"," ","f","r","o","m"," ","P","a","g","e">>

\* f'Table from Page {page_num + 1}'
PageTitle(page_num) ==
    <<"T","a","b","l","e"," ","f","r","o","m"," ","P","a","g","e"," ">>
        \o Digits(page_num + 1)

\* f'Native Table {i+1}'
NativeTitle(i) ==
    <<"N","a","t","i","v","e"," ","T","a","b","l","e"," ">> \o Digits(i + 1)

\* f'Table from Embedded Image {i+1}'
EmbeddedTitle(i) ==
    <<"T","a","b","l","e"," ","f","r","o","m"," ","E","m","b","e","d","d","e","d",
      " ","I","m","a","g","e"," ">> \o Digits(i + 1)

\* 'Table from Image'
ImageTitle ==
    <<"T","a","b","l","e"," ","f","r","o","m"," ","I","m","a","g","e">>

\* "\n".join(full_text)
RECURSIVE Join(_)
Join(list) ==
    IF list = <<>> THEN <<>>
    ELSE IF Len(list) = 1 THEN list[1]
    ELSE list[1] \o <<"\n">> \o Join(Tail(list))

\* The first loop of extract_data_from_docx: one entry per native table.
RECURSIVE NativeTables(_)
NativeTables(tables) ==
    IF tables = <<>> THEN <<>>
    ELSE Append(NativeTables(SubSeq(tables, 1, Len(tables) - 1)),
                [title |-> NativeTitle(Len(tables) - 1),
                 data |-> tables[Len(tables)]])

-----------------------------------------------------------------------------
(* The uploads and the model's replies the pipeline is run on.             *)

\* The extensions main() computes from the upload's name.  The uploader is
\* asked for the first five; ".txt" stands for any other extension, which
\* main() itself does not reject: its if/elif chain has no branch for it.
Extensions == {".jpg", ".jpeg", ".png", ".pdf", ".docx", ".txt"}

\* A wrong dispatch: ".jpeg" left out of the image family.
DispatchWithoutJpeg(ext) ==
    IF ext \in {".jpg", ".png"} THEN "image"
    ELSE IF ext = ".pdf" THEN "pdf"
    ELSE IF ext = ".docx" THEN "docx"
    ELSE "none"

\* The branch of main()'s if/elif chain an extension takes.
Dispatch(ext) ==
    IF ext \in {".jpg", ".jpeg", ".png"} THEN "image"
    ELSE IF ext = ".pdf" THEN "pdf"
    ELSE IF ext = ".docx" THEN "docx"
    ELSE "none"

PromptTemplate == "prompt_template"
PromptForEmbeds == "prompt_for_embeds"

\* What model.generate_content / response.text can do for one unit: raise,
\* or return one of these replies.
ApiFailure == <<"exception">>
Undecodable == <<"undecodable">>

Replies ==
    { <<>>,                             \* the empty string
      <<"x">>,                          \* prose only
      <<"}", "{">>,                     \* the braces the wrong way round
      <<"{", "x", "}">>,                \* braces around something that is no JSON
      <<"x", "{", "T", "}", "x">>,      \* text only, wrapped in prose
      <<"{", "J", "}">>,                \* a jagged table, no text
      <<"{", "T", ",", "B", "}">>,      \* text and a table
      <<"{", "t", ",", "H", "}">> }     \* empty text and a header-only table

\* The DOCX uploads: no paragraph or one, and up to MaxTables native tables,
\* with two rows and with one row in turn.
DocParagraphs == { <<>>, << <<"Intro">> >> }
NativeRows(i) == IF i % 2 = 1 THEN RectTable ELSE HeaderTable
DocTables(max_tables) == { [i \in 1..t |-> NativeRows(i)] : t \in 0..max_tables }

Message(level, src, unit) == [level |-> level, src |-> src, unit |-> unit]

-----------------------------------------------------------------------------
(* Export (main(), the part below "if 'extracted_text' in session_state"). *)

RowWidths(rows) == { Len(rows[i]) : i \in 1..Len(rows) }
MaxWidth(rows) ==
    IF rows = <<>> THEN 0
    ELSE CHOOSE w \in RowWidths(rows) : \A v \in RowWidths(rows) : v <= w

\* A row padded to width w, as pandas pads short rows of a list of lists.
PadRow(row, w) == [j \in 1..w |-> IF j <= Len(row) THEN row[j] ELSE ""]
PadRows(rows, w) == [i \in 1..Len(rows) |-> PadRow(rows[i], w)]

\* pd.DataFrame(table_rows[1:], columns=table_rows[0]) raises ValueError
\* ("N columns passed, passed data had M columns") unless the widest data
\* row has as many cells as the header.
HeaderFrameRaises(table_rows) ==
    MaxWidth(Tail(table_rows)) # Len(table_rows[1])

Lower(c) ==
    LET up == <<"A","B","C","D","E","F","G","H","I","J","K","L","M",
                "N","O","P","Q","R","S","T","U","V","W","X","Y","Z">>
        lo == <<"a","b","c","d","e","f","g","h","i","j","k","l","m",
                "n","o","p","q","r","s","t","u","v","w","x","y","z">>
    IN  IF \E i \in 1..26 : up[i] = c
        THEN lo[CHOOSE i \in 1..26 : up[i] = c]
        ELSE c

SafeChar(c) ==
    c \in {"a","b","c","d","e","f","g","h","i","j","k","l","m",
           "n","o","p","q","r","s","t","u","v","w","x","y","z",
           "0","1","2","3","4","5","6","7","8","9","_"}

\* re.sub(r'[^a-z0-9_]+', '', title.lower().replace(' ', '_'))
RECURSIVE SafeFilename(_)
SafeFilename(title) ==
    IF title = <<>> THEN <<>>
    ELSE LET c == IF Lower(Head(title)) = " " THEN "_" ELSE Lower(Head(title))
         IN  (IF SafeChar(c) THEN <<c>> ELSE <<>>) \o SafeFilename(Tail(title))

\* The CSV download of table i, or none: the body of the loop at the end of
\* main(), with its "except Exception" that warns instead.
CsvProduced(table_info) ==
    /\ table_info.data # <<>>
    /\ Len(table_info.data) > 1
    /\ ~HeaderFrameRaises(table_info.data)

CsvWarned(table_info) ==
    /\ table_info.data # <<>>
    /\ Len(table_info.data) > 1
    /\ HeaderFrameRaises(table_info.data)

CsvFile(table_info, i) ==
    [file_name |-> SafeFilename(table_info.title) \o <<".", "c", "s", "v">>,
     key |-> i,
     header |-> table_info.data[1],
     rows |-> PadRows(Tail(table_info.data), Len(table_info.data[1]))]

RECURSIVE CsvFiles(_, _)
CsvFiles(tables_data, i) ==
    IF i > Len(tables_data) THEN <<>>
    ELSE (IF CsvProduced(tables_data[i])
          THEN <<CsvFile(tables_data[i], i - 1)>> ELSE <<>>)
         \o CsvFiles(tables_data, i + 1)

RECURSIVE CsvWarnings(_, _)
CsvWarnings(tables_data, i) ==
    IF i > Len(tables_data) THEN <<>>
    ELSE (IF CsvWarned(tables_data[i])
          THEN <<Message("warning", "csv", i)>> ELSE <<>>)
         \o CsvWarnings(tables_data, i + 1)

\* The display loop: the same DataFrame construction, warning and showing
\* the raw data when it raises.
RECURSIVE RenderWarnings(_, _)
RenderWarnings(tables_data, i) ==
    IF i > Len(tables_data) THEN <<>>
    ELSE (IF CsvWarned(tables_data[i])
          THEN <<Message("warning", "render", i)>> ELSE <<>>)
         \o RenderWarnings(tables_data, i + 1)

\* pd.DataFrame(data).to_string(index=False, header=False): one piece per
\* padded row.
RECURSIVE GridLines(_)
GridLines(rows) ==
    IF rows = <<>> THEN <<>>
    ELSE <<[line |-> Head(rows)]>> \o GridLines(Tail(rows))

Grid(data) ==
    IF data = <<>> THEN <<[line |-> <<"Empty DataFrame">>]>>
    ELSE GridLines(PadRows(data, MaxWidth(data)))

\* One section of the TXT download:
\* f"\n\n\n{table_info['title']}\n{'='*20}\n" and the grid.
TxtSection(table_info) ==
    [title |-> table_info.title, rule |-> "====================",
     grid |-> Grid(table_info.data)]

\* txt_content: the header, the text, and one section per table.
TxtContent(text, tables_data) ==
    [header |-> <<"Extracted Text\n", "====================\n">>,
     text |-> text,
     sections |-> [i \in 1..Len(tables_data) |-> TxtSection(tables_data[i])]]

NoTxt == [header |-> <<>>, text |-> <<>>, sections |-> <<>>]

-----------------------------------------------------------------------------
(* The state after the script's first run: nothing uploaded, nothing       *)
(* stored.                                                                 *)

Init ==
    /\ pc = "idle"
    /\ path = "none"
    /\ prompt = PromptTemplate
    /\ file_extension = ""
    /\ n_units = 0
    /\ idx = 0
    /\ response_text = None
    /\ aggregated_text = <<>>
    /\ aggregated_tables = <<>>
    /\ full_text = <<>>
    /\ all_tables_data = <<>>
    /\ text_result = <<>>
    /\ table_result = <<>>
    /\ stored = FALSE
    /\ extracted_text = <<>>
    /\ extracted_tables = <<>>
    /\ txt_content = NoTxt
    /\ csv_files = <<>>
    /\ messages = <<>>
    /\ uncaught = "none"
    /\ calls = <<>>
    /\ outcomes = <<>>
    /\ overwrote = FALSE
    /\ doc_tables = <<>>
    /\ doc_paragraphs = <<>>
    /\ raw = <<>>
    /\ parsed = [raised |-> "pending", found |-> FALSE, text |-> <<>>, table |-> <<>>]

parse_vars == <<raw, parsed>>
session_vars == <<stored, extracted_text, extracted_tables, txt_content, csv_files>>
pdf_locals == <<aggregated_text, aggregated_tables>>
docx_locals == <<full_text, all_tables_data, doc_tables, doc_paragraphs>>

-----------------------------------------------------------------------------
(* "Extract Data" is clicked: main() from the button to the dispatch, and  *)
(* the extractor's code before its loop over the units.  The API key is    *)
(* configured (configure_api returns), the PDF opens and its pages render. *)

\* text_result, table_result = "", []
FreshTables == <<>>

ClickExtract(max_pages, max_images, max_tables) ==
    /\ pc = "idle"
    /\ \E ext \in Extensions :
         /\ file_extension' = ext
         /\ path' = Dispatch(ext)
         /\ prompt' = IF Dispatch(ext) = "docx" THEN PromptForEmbeds ELSE PromptTemplate
         /\ \/ /\ Dispatch(ext) = "image"
               /\ n_units' = 1
               /\ pc' = "call"
               /\ doc_tables' = <<>> /\ doc_paragraphs' = <<>>
               /\ full_text' = <<>> /\ all_tables_data' = <<>>
            \/ /\ Dispatch(ext) = "pdf"
               /\ \E n \in 1..max_pages : n_units' = n
               /\ pc' = "call"
               /\ doc_tables' = <<>> /\ doc_paragraphs' = <<>>
               /\ full_text' = <<>> /\ all_tables_data' = <<>>
            \/ /\ Dispatch(ext) = "docx"
               /\ \E k \in 0..max_images : n_units' = k
               /\ \E paras \in DocParagraphs, tabs \in DocTables(max_tables) :
                    /\ doc_paragraphs' = paras
                    /\ doc_tables' = tabs
                    /\ full_text' = paras
                    /\ all_tables_data' = FreshTables \o NativeTables(tabs)
               /\ pc' = "call"
            \/ /\ Dispatch(ext) = "none"
               /\ n_units' = 0
               /\ pc' = "store"
               /\ doc_tables' = <<>> /\ doc_paragraphs' = <<>>
               /\ full_text' = <<>> /\ all_tables_data' = <<>>
    /\ idx' = 0
    /\ response_text' = None
    /\ aggregated_text' = <<>>
    /\ aggregated_tables' = FreshTables
    /\ text_result' = <<>>
    /\ table_result' = FreshTables
    /\ messages' = <<>>
    /\ calls' = <<>>
    /\ outcomes' = <<>>
    /\ overwrote' = FALSE
    /\ UNCHANGED <<session_vars, uncaught, parse_vars>>

-----------------------------------------------------------------------------
(* get_gemini_response: the model is called for the unit; an exception of  *)
(* the call is reported with st.error and None is returned.                *)

GeminiReturn(api) == IF api = ApiFailure THEN None ELSE api

InvokeModel ==
    /\ pc = "call"
    /\ path \in {"image", "pdf", "docx"}
    /\ idx < n_units
    /\ \E api \in Replies \cup {ApiFailure} :
         /\ response_text' = GeminiReturn(api)
         /\ messages' = IF api = ApiFailure
                        THEN Append(messages, Message("error", "gemini", idx + 1))
                        ELSE messages
    /\ calls' = Append(calls, idx + 1)
    /\ pc' = "parse"
    /\ UNCHANGED <<path, prompt, file_extension, n_units, idx, pdf_locals,
                   docx_locals, text_result, table_result, session_vars,
                   uncaught, outcomes, overwrote, parse_vars>>

\* Image.open(io.BytesIO(part.blob)) raises for an embedded image PIL cannot
\* read: the loop's "except Exception" warns and goes on to the next image.
DecodeFails ==
    /\ pc = "call"
    /\ path = "docx"
    /\ idx < n_units
    /\ messages' = Append(messages, Message("warning", "embedded", idx + 1))
    /\ outcomes' = Append(outcomes, Undecodable)
    /\ idx' = idx + 1
    /\ UNCHANGED <<pc, path, prompt, file_extension, n_units, response_text,
                   pdf_locals, docx_locals, text_result, table_result,
                   session_vars, uncaught, calls, overwrote, parse_vars>>

\* "if response_text:" -- None and the empty string are false.
Truthy(text) == text # None /\ text # <<>>

\* A wrong loop: a unit whose call failed is tried again.
NextUnitRetry(i, text) == IF text = None THEN i ELSE i + 1

\* The index the loop goes on with after a unit.
NextUnit(i, text) == i + 1

\* A handler that catches nothing.
CatchesNothing(exc) == FALSE

\* "except json.JSONDecodeError" of the PDF loop and of the image branch.
CatchesDecodeError(exc) == exc = "JSONDecodeError"

\* "except Exception" of the DOCX loop.
CatchesException(exc) == exc # "none"

-----------------------------------------------------------------------------
(* The body of the PDF loop after the model call.                          *)

PdfText(text, page_num, r) ==
    IF r.text # <<>> THEN text \o PageSection(page_num, r.text) ELSE text

PdfTables(tables, page_num, r) ==
    IF r.table # <<>>
    THEN Append(tables, [title |-> PageTitle(page_num), data |-> r.table])
    ELSE tables

ParsePage ==
    /\ pc = "parse"
    /\ path = "pdf"
    /\ LET r == ParseResponse(response_text)
       IN  IF ~Truthy(response_text)
           THEN /\ UNCHANGED <<pdf_locals, messages, uncaught>>
                /\ pc' = "call"
           ELSE IF r.raised = "none"
           THEN /\ aggregated_text' =
                      IF r.found THEN PdfText(aggregated_text, idx, r)
                      ELSE aggregated_text
                /\ aggregated_tables' =
                      IF r.found THEN PdfTables(aggregated_tables, idx, r)
                      ELSE aggregated_tables
                /\ UNCHANGED <<messages, uncaught>>
                /\ pc' = "call"
           ELSE IF CatchesDecodeError(r.raised)
           THEN /\ messages' = Append(messages, Message("warning", "page", idx + 1))
                /\ UNCHANGED <<pdf_locals, uncaught>>
                /\ pc' = "call"
           ELSE /\ uncaught' = r.raised
                /\ pc' = "crashed"
                /\ UNCHANGED <<pdf_locals, messages>>
    /\ outcomes' = Append(outcomes, response_text)
    /\ idx' = NextUnit(idx, response_text)
    /\ UNCHANGED <<path, prompt, file_extension, n_units, response_text,
                   docx_locals, text_result, table_result, session_vars,
                   calls, overwrote, parse_vars>>

-----------------------------------------------------------------------------
(* The body of the DOCX loop after the model call.                         *)

DocxText(list, i, r) ==
    IF r.text # <<>> THEN Append(list, ImageSection(i, r.text)) ELSE list

\* A wrong accumulation: the image's table put first.
DocxTablesPrepend(tables, i, r) ==
    IF r.table # <<>>
    THEN <<[title |-> EmbeddedTitle(i), data |-> r.table]>> \o tables
    ELSE tables

DocxTables(tables, i, r) ==
    IF r.table # <<>>
    THEN Append(tables, [title |-> EmbeddedTitle(i), data |-> r.table])
    ELSE tables

ParseEmbedded ==
    /\ pc = "parse"
    /\ path = "docx"
    /\ LET r == ParseResponse(response_text)
       IN  IF ~Truthy(response_text)
           THEN /\ UNCHANGED <<full_text, all_tables_data, messages, uncaught>>
                /\ pc' = "call"
           ELSE IF r.raised = "none"
           THEN /\ full_text' =
                      IF r.found THEN DocxText(full_text, idx, r) ELSE full_text
                /\ all_tables_data' =
                      IF r.found THEN DocxTables(all_tables_data, idx, r)
                      ELSE all_tables_data
                /\ UNCHANGED <<messages, uncaught>>
                /\ pc' = "call"
           ELSE IF CatchesException(r.raised)
           THEN /\ messages' = Append(messages, Message("warning", "embedded", idx + 1))
                /\ UNCHANGED <<full_text, all_tables_data, uncaught>>
                /\ pc' = "call"
           ELSE /\ uncaught' = r.raised
                /\ pc' = "crashed"
                /\ UNCHANGED <<full_text, all_tables_data, messages>>
    /\ outcomes' = Append(outcomes, response_text)
    /\ idx' = NextUnit(idx, response_text)
    /\ UNCHANGED <<path, prompt, file_extension, n_units, response_text,
                   pdf_locals, doc_tables, doc_paragraphs, text_result,
                   table_result, session_vars, calls, overwrote, parse_vars>>

-----------------------------------------------------------------------------
(* The image branch of main() after the model call.                        *)

ImageTables(r) ==
    IF r.table # <<>> THEN <<[title |-> ImageTitle, data |-> r.table]>> ELSE <<>>

ParseImage ==
    /\ pc = "parse"
    /\ path = "image"
    /\ LET r == ParseResponse(response_text)
       IN  IF ~Truthy(response_text)
           THEN /\ UNCHANGED <<text_result, table_result, messages, uncaught>>
                /\ pc' = "store"
           ELSE IF r.raised = "none"
           THEN /\ text_result' = IF r.found THEN r.text ELSE text_result
                /\ table_result' = IF r.found /\ r.table # <<>>
                                   THEN ImageTables(r) ELSE table_result
                /\ UNCHANGED <<messages, uncaught>>
                /\ pc' = "store"
           ELSE IF CatchesDecodeError(r.raised)
           THEN /\ messages' = Append(messages, Message("error", "image", idx + 1))
                /\ UNCHANGED <<text_result, table_result, uncaught>>
                /\ pc' = "store"
           ELSE /\ uncaught' = r.raised
                /\ pc' = "crashed"
                /\ UNCHANGED <<text_result, table_result, messages>>
    /\ outcomes' = Append(outcomes, response_text)
    /\ idx' = NextUnit(idx, response_text)
    /\ UNCHANGED <<path, prompt, file_extension, n_units, response_text,
                   pdf_locals, docx_locals, session_vars, calls, overwrote, parse_vars>>

-----------------------------------------------------------------------------
(* The extractor returns to main().                                        *)

ExtractorReturn ==
    /\ pc = "call"
    /\ path \in {"pdf", "docx"}
    /\ idx >= n_units
    /\ text_result' = IF path = "pdf" THEN aggregated_text ELSE Join(full_text)
    /\ table_result' = IF path = "pdf" THEN aggregated_tables ELSE all_tables_data
    /\ pc' = "store"
    /\ UNCHANGED <<path, prompt, file_extension, n_units, idx, response_text,
                   pdf_locals, docx_locals, session_vars, messages, uncaught,
                   calls, outcomes, overwrote, parse_vars>>

-----------------------------------------------------------------------------
(* main() stores the result in the session and, in the same script run,    *)
(* displays it and builds the downloads.                                   *)

\* A wrong store: the new tables added to the stored ones.
MergedTables(old, new) == old \o new

\* st.session_state.extracted_tables = table_result
StoredTables(old, new) == new
\* st.session_state.extracted_text = text_result
StoredText(old, new) == new

StoreResult ==
    /\ pc = "store"
    /\ LET text == StoredText(extracted_text, text_result)
           tables == StoredTables(extracted_tables, table_result)
       IN  /\ extracted_text' = text
           /\ extracted_tables' = tables
           /\ stored' = TRUE
           /\ txt_content' = TxtContent(text, tables)
           /\ csv_files' = CsvFiles(tables, 1)
           /\ messages' = messages \o RenderWarnings(tables, 1)
                                   \o CsvWarnings(tables, 1)
    /\ overwrote' = (stored /\ (extracted_text # <<>> \/ extracted_tables # <<>>))
    /\ pc' = "idle"
    /\ UNCHANGED <<path, prompt, file_extension, n_units, idx, response_text,
                   pdf_locals, docx_locals, text_result, table_result,
                   uncaught, calls, outcomes, raw, parsed>>

\* Runs following runs in one session, each of at most SessionUnits units.
Next ==
    \/ ClickExtract(SessionUnits, SessionUnits, SessionUnits)
    \/ InvokeModel
    \/ DecodeFails
    \/ ParsePage
    \/ ParseEmbedded
    \/ ParseImage
    \/ ExtractorReturn
    \/ StoreResult

Spec == Init /\ [][Next]_vars

\* One extraction run in a fresh session, of up to MaxPages pages or
\* MaxImages embedded images and MaxTables native tables.
FirstClick == ~stored /\ ClickExtract(MaxPages, MaxImages, MaxTables)

NextRun ==
    \/ FirstClick
    \/ InvokeModel
    \/ DecodeFails
    \/ ParsePage
    \/ ParseEmbedded
    \/ ParseImage
    \/ ExtractorReturn
    \/ StoreResult

SpecRun == Init /\ [][NextRun]_vars

-----------------------------------------------------------------------------
(* The parsing on its own: every reply of at most MaxLen tokens.           *)

RawReplies == UNION { [1..n -> ParseAlphabet] : n \in 0..MaxLen }

InitParse ==
    /\ pc = "idle"
    /\ path = "none"
    /\ prompt = PromptTemplate
    /\ file_extension = ""
    /\ n_units = 0
    /\ idx = 0
    /\ response_text = None
    /\ aggregated_text = <<>>
    /\ aggregated_tables = <<>>
    /\ full_text = <<>>
    /\ all_tables_data = <<>>
    /\ text_result = <<>>
    /\ table_result = <<>>
    /\ stored = FALSE
    /\ extracted_text = <<>>
    /\ extracted_tables = <<>>
    /\ txt_content = NoTxt
    /\ csv_files = <<>>
    /\ messages = <<>>
    /\ uncaught = "none"
    /\ calls = <<>>
    /\ outcomes = <<>>
    /\ overwrote = FALSE
    /\ doc_tables = <<>>
    /\ doc_paragraphs = <<>>
    /\ raw \in RawReplies
    /\ parsed = [raised |-> "pending", found |-> FALSE, text |-> <<>>, table |-> <<>>]

ParseStep ==
    /\ parsed.raised = "pending"
    /\ parsed' = ParseResponse(raw)
    /\ UNCHANGED <<pc, path, prompt, file_extension, n_units, idx,
                   response_text, pdf_locals, docx_locals, text_result,
                   table_result, session_vars, messages, uncaught, calls,
                   outcomes, overwrote, raw>>

NextParse == ParseStep

SpecParse == InitParse /\ [][NextParse]_vars

-----------------------------------------------------------------------------
(* What a well-formed JSON object is, stated on the text itself rather     *)
(* than by a parser: the claims about parsing are checked against this.    *)

MemberTokens == {"T", "t", "B", "H", "J", "b"}

RECURSIVE IsObject(_), IsMembers(_), IsMember(_)
IsObject(s) ==
    /\ Len(s) >= 2
    /\ s[1] = "{"
    /\ s[Len(s)] = "}"
    /\ (Len(s) = 2 \/ IsMembers(SubSeq(s, 2, Len(s) - 1)))

IsMembers(s) ==
    \/ IsMember(s)
    \/ \E i \in 2..(Len(s) - 1) :
         /\ s[i] = ","
         /\ IsMember(SubSeq(s, 1, i - 1))
         /\ IsMembers(SubSeq(s, i + 1, Len(s)))

IsMember(s) ==
    \/ Len(s) = 1 /\ s[1] \in MemberTokens
    \/ Len(s) >= 3 /\ s[1] = "k" /\ IsObject(Tail(s))

\* The number of braces open before position i.
DepthAt(s, i) ==
    Cardinality({j \in 1..(i - 1) : s[j] = "{"})
        - Cardinality({j \in 1..(i - 1) : s[j] = "}"})

\* The positions of an object's own members with a token of toks.
OwnMembers(s, toks) == {i \in 1..Len(s) : s[i] \in toks /\ DepthAt(s, i) = 1}

Last(set) == CHOOSE i \in set : \A j \in set : j <= i

\* The object's "text" and "table" fields, "" and [] when the key is absent.
FieldText(s) ==
    IF OwnMembers(s, {"T", "t"}) = {} THEN <<>>
    ELSE IF s[Last(OwnMembers(s, {"T", "t"}))] = "T" THEN Hello ELSE <<>>

FieldTable(s) ==
    IF OwnMembers(s, {"B", "H", "J", "b"}) = {} THEN <<>>
    ELSE LET tok == s[Last(OwnMembers(s, {"B", "H", "J", "b"}))]
         IN  CASE tok = "B" -> RectTable
               [] tok = "H" -> HeaderTable
               [] tok = "J" -> JaggedTable
               [] OTHER -> <<>>

Has(s, c) == \E i \in 1..Len(s) : s[i] = c
FirstOpen(s) == CHOOSE i \in 1..Len(s) : s[i] = "{" /\ \A j \in 1..(i - 1) : s[j] # "{"
LastClose(s) == CHOOSE i \in 1..Len(s) : s[i] = "}" /\ \A j \in (i + 1)..Len(s) : s[j] # "}"

\* The substring from the first "{" to the last "}", both included; empty
\* when the last "}" lies before the first "{".
Braced(s) ==
    IF FirstOpen(s) <= LastClose(s) THEN SubSeq(s, FirstOpen(s), LastClose(s))
    ELSE <<>>

-----------------------------------------------------------------------------
\* C5: response parsing.  A reply with no "{" or no "}" gives empty text and
\* an empty table and raises nothing; a reply whose substring from the first
\* "{" to the last "}" is a well-formed JSON object gives exactly that
\* object's "text" and "table" fields (empty when the key is absent); a reply
\* that has both characters but whose substring is no valid JSON (the last
\* "}" before the first "{" included) raises a parse failure.
ParserContract ==
    parsed.raised # "pending" =>
      /\ (~Has(raw, "{") \/ ~Has(raw, "}")) =>
            /\ parsed.raised = "none"
            /\ parsed.text = <<>>
            /\ parsed.table = <<>>
      /\ (Has(raw, "{") /\ Has(raw, "}") /\ IsObject(Braced(raw))) =>
            /\ parsed.raised = "none"
            /\ parsed.text = FieldText(Braced(raw))
            /\ parsed.table = FieldTable(Braced(raw))
      /\ (Has(raw, "{") /\ Has(raw, "}") /\ ~IsObject(Braced(raw))) =>
            parsed.raised = "JSONDecodeError"

\* A reply with prose before and after a nested object has been parsed.
ParserContractWitness ==
    /\ raw = <<"x", "{", "k", "{", "}", "}">> \/ raw = <<"x", "{", "T", "}", "x">>
    /\ parsed.raised = "none"
    /\ parsed.found

-----------------------------------------------------------------------------
(* What a run is expected to produce, stated from the replies its units    *)
(* got (the history outcomes) and from the uploaded document alone.        *)

\* A valid response: the substring from the first "{" to the last "}" parses
\* as a JSON object.
ValidReply(r) == Has(r, "{") /\ Has(r, "}") /\ IsObject(Braced(r))

\* A failed unit: the call failed, the image could not be decoded, or the
\* reply holds no parseable JSON object.
FailedReply(r) == ~ValidReply(r)

ReplyText(r) == IF ValidReply(r) THEN FieldText(Braced(r)) ELSE <<>>
ReplyTable(r) == IF ValidReply(r) THEN FieldTable(Braced(r)) ELSE <<>>

Numeral(k) == <<DigitChar[k + 1]>>      \* k < 10

TableFromPage(k) ==
    <<"T","a","b","l","e"," ","f","r","o","m"," ","P","a","g","e"," ">> \o Numeral(k)
NativeTable(k) ==
    <<"N","a","t","i","v","e"," ","T","a","b","l","e"," ">> \o Numeral(k)
TableFromEmbeddedImage(k) ==
    <<"T","a","b","l","e"," ","f","r","o","m"," ","E","m","b","e","d","d","e","d",
      " ","I","m","a","g","e"," ">> \o Numeral(k)
TableFromImage ==
    <<"T","a","b","l","e"," ","f","r","o","m"," ","I","m","a","g","e">>

PageLabel == "\n\n--- Page "

\* The PDF result of the pages 1..k.
RECURSIVE PdfTextOf(_, _), PdfTablesOf(_, _)
PdfTextOf(outs, k) ==
    IF k = 0 THEN <<>>
    ELSE PdfTextOf(outs, k - 1)
         \o (IF ReplyText(outs[k]) # <<>>
             THEN <<PageLabel, ToString(k), " ---\n">> \o ReplyText(outs[k])
             ELSE <<>>)

PdfTablesOf(outs, k) ==
    IF k = 0 THEN <<>>
    ELSE PdfTablesOf(outs, k - 1)
         \o (IF ReplyTable(outs[k]) # <<>>
             THEN <<[title |-> TableFromPage(k), data |-> ReplyTable(outs[k])]>>
             ELSE <<>>)

\* The DOCX result: the native entries, then those of the images 1..k.
NativeEntries(tables) ==
    [i \in 1..Len(tables) |-> [title |-> NativeTable(i), data |-> tables[i]]]

RECURSIVE EmbeddedEntries(_, _), EmbeddedItems(_, _)
EmbeddedEntries(outs, k) ==
    IF k = 0 THEN <<>>
    ELSE EmbeddedEntries(outs, k - 1)
         \o (IF ReplyTable(outs[k]) # <<>>
             THEN <<[title |-> TableFromEmbeddedImage(k), data |-> ReplyTable(outs[k])]>>
             ELSE <<>>)

EmbeddedItems(outs, k) ==
    IF k = 0 THEN <<>>
    ELSE EmbeddedItems(outs, k - 1)
         \o (IF ReplyText(outs[k]) # <<>>
             THEN << <<"\n--- Text from Embedded Image ", ToString(k), " ---\n">>
                     \o ReplyText(outs[k]) >>
             ELSE <<>>)

RECURSIVE Lines(_, _)
Lines(paras, k) ==
    IF k = 0 THEN <<>>
    ELSE Lines(paras, k - 1) \o (IF k > 1 THEN <<"\n">> ELSE <<>>) \o paras[k]

\* The result of the run whose history the state holds.
RunText ==
    CASE path = "image" ->
           IF outcomes = <<>> THEN <<>> ELSE ReplyText(outcomes[1])
      [] path = "pdf" -> PdfTextOf(outcomes, Len(outcomes))
      [] path = "docx" ->
           LET items == doc_paragraphs \o EmbeddedItems(outcomes, Len(outcomes))
           IN  Lines(items, Len(items))
      [] OTHER -> <<>>

RunTables ==
    CASE path = "image" ->
           IF outcomes # <<>> /\ ReplyTable(outcomes[1]) # <<>>
           THEN <<[title |-> TableFromImage, data |-> ReplyTable(outcomes[1])]>>
           ELSE <<>>
      [] path = "pdf" -> PdfTablesOf(outcomes, Len(outcomes))
      [] path = "docx" ->
           NativeEntries(doc_tables) \o EmbeddedEntries(outcomes, Len(outcomes))
      [] OTHER -> <<>>

Titles(tables) == [i \in 1..Len(tables) |-> tables[i].title]

\* The labels of the page sections of a text, in the order they appear.
RECURSIVE SectionLabels(_)
SectionLabels(text) ==
    IF Len(text) < 2 THEN <<>>
    ELSE IF text[1] = PageLabel
         THEN <<text[2]>> \o SectionLabels(Tail(Tail(text)))
         ELSE SectionLabels(Tail(text))

PdfReturned == pc = "store" /\ path = "pdf"
AllValid == \A k \in 1..Len(outcomes) : ValidReply(outcomes[k])

-----------------------------------------------------------------------------
\* C1 as stated: for a PDF of N pages whose replies are all valid, the text
\* returned holds exactly N page-labelled sections, for the pages 1..N in
\* order, and the table list holds one entry per page with a non-empty
\* table, titled with that page's number.
PdfSectionsPerPage ==
    (PdfReturned /\ AllValid) =>
      /\ SectionLabels(text_result) = [k \in 1..n_units |-> ToString(k)]
      /\ table_result = PdfTablesOf(outcomes, n_units)

\* C1 as amended: for a PDF of N pages whose replies are all valid, the text
\* returned holds one page-labelled section for each page whose text is not
\* empty and none for the others, in page order, each followed by that page's
\* text; the table list holds one entry per page with a non-empty table, in
\* page order, titled "Table from Page k" with k the page's 1-based number.
PdfSectionsPerTextPage ==
    (PdfReturned /\ AllValid) =>
      /\ text_result = PdfTextOf(outcomes, n_units)
      /\ Len(SectionLabels(text_result)) =
           Cardinality({k \in 1..n_units : ReplyText(outcomes[k]) # <<>>})
      /\ table_result = PdfTablesOf(outcomes, n_units)
      /\ Len(table_result) =
           Cardinality({k \in 1..n_units : ReplyTable(outcomes[k]) # <<>>})

\* A two-page PDF, both replies valid: page 1 with text only, page 2 with
\* text and a table.
PdfSectionsWitness ==
    /\ PdfReturned
    /\ AllValid
    /\ n_units = 2
    /\ SectionLabels(text_result) = <<"1", "2">>
    /\ Titles(table_result) = <<TableFromPage(2)>>

-----------------------------------------------------------------------------
\* C2: in a PDF or DOCX run a unit whose model call failed or whose reply is
\* malformed never aborts the run: the step that handles it leaves the
\* aggregate text and the aggregate table list as they were and goes on to
\* the next unit, the extractor returns only after every unit was handled,
\* and no exception leaves the extractor.
MultiUnit == path \in {"pdf", "docx"}

FailedUnitStep ==
    /\ pc = "parse"
    /\ MultiUnit
    /\ FailedReply(response_text)

FailedUnitSkipped ==
    /\ [][FailedUnitStep =>
            /\ aggregated_text' = aggregated_text
            /\ aggregated_tables' = aggregated_tables
            /\ full_text' = full_text
            /\ all_tables_data' = all_tables_data
            /\ pc' = "call"
            /\ idx' = idx + 1]_vars
    /\ [](MultiUnit => (uncaught = "none" /\ pc # "crashed"))
    /\ []((pc = "store" /\ MultiUnit) =>
            /\ Len(outcomes) = n_units
            /\ idx = n_units)

\* A two-page PDF whose page 1 reply was malformed and whose page 2 was
\* still handled and contributed its section.
FailedUnitWitness ==
    /\ PdfReturned
    /\ n_units = 2
    /\ outcomes[1] = <<"{", "x", "}">>
    /\ SectionLabels(text_result) = <<"2">>

-----------------------------------------------------------------------------
\* C3: for a DOCX with T native tables and K embedded images the table list
\* is the T entries "Native Table 1" .. "Native Table T" in document order,
\* followed by at most K entries "Table from Embedded Image i" with
\* increasing i; no embedded-image table precedes a native table.
IsEmbeddedTitle(title, lo, hi) ==
    \E i \in lo..hi : title = TableFromEmbeddedImage(i)

EmbeddedIndex(title) ==
    CHOOSE i \in 1..(MaxImages + 1) : title = TableFromEmbeddedImage(i)

NativeThenEmbedded(tables, natives, k) ==
    /\ Len(tables) >= Len(natives)
    /\ Len(tables) <= Len(natives) + k
    /\ \A i \in 1..Len(natives) :
         /\ tables[i].title = NativeTable(i)
         /\ tables[i].data = natives[i]
    /\ \A i \in (Len(natives) + 1)..Len(tables) :
         IsEmbeddedTitle(tables[i].title, 1, k)
    /\ \A i, j \in (Len(natives) + 1)..Len(tables) :
         i < j => EmbeddedIndex(tables[i].title) < EmbeddedIndex(tables[j].title)

DocxTableOrder ==
    /\ (path = "docx" /\ pc \in {"call", "parse", "store"}) =>
          NativeThenEmbedded(all_tables_data, doc_tables, n_units)
    /\ (path = "docx" /\ pc = "store") =>
          NativeThenEmbedded(table_result, doc_tables, n_units)
    /\ (path = "docx" /\ pc = "idle") =>
          NativeThenEmbedded(extracted_tables, doc_tables, n_units)

\* A DOCX with two native tables and two embedded images that both gave a
\* table.
DocxTableOrderWitness ==
    /\ path = "docx"
    /\ pc = "store"
    /\ Len(doc_tables) = 2
    /\ n_units = 2
    /\ Titles(table_result) = <<NativeTable(1), NativeTable(2),
                                TableFromEmbeddedImage(1), TableFromEmbeddedImage(2)>>

-----------------------------------------------------------------------------
\* C4: every failed unit is reported.  For each unit (the single image, a PDF
\* page, a DOCX embedded image) whose model call failed or whose reply holds
\* no parseable JSON object (no "{" / "}" pair at all, or a substring that is
\* no valid JSON), exactly one warning or error is recorded for that unit and
\* the unit contributes nothing; so a two-page PDF whose page 1 gives text
\* only and whose page 2 gives unparseable text returns the "Page 1" section
\* alone, no table, and one warning for page 2.
ExtractionMessages(k) ==
    {i \in 1..Len(messages) :
        /\ messages[i].src \in {"gemini", "page", "image", "embedded"}
        /\ messages[i].unit = k}

EveryFailureReported ==
    /\ \A k \in 1..Len(outcomes) :
         FailedReply(outcomes[k]) => Cardinality(ExtractionMessages(k)) = 1
    /\ pc = "store" => (text_result = RunText /\ table_result = RunTables)
    /\ (PdfReturned /\ n_units = 2 /\ ValidReply(outcomes[1])
          /\ ReplyText(outcomes[1]) # <<>> /\ ReplyTable(outcomes[1]) = <<>>
          /\ FailedReply(outcomes[2])) =>
         /\ SectionLabels(text_result) = <<"1">>
         /\ table_result = <<>>
         /\ Cardinality(ExtractionMessages(2)) = 1

-----------------------------------------------------------------------------
\* C6 as stated: the model is invoked strictly in sequence and exactly once
\* per unit: when the units of a run are done the invocations were those of
\* the units 1 .. N in that order (the pages of a PDF, the embedded images of
\* a DOCX, the one image of an image upload), none twice and none skipped,
\* and a unit is invoked only when every earlier reply has been handled.
Upto(n) == [k \in 1..n |-> k]

InvokedInOrder ==
    /\ \A i, j \in 1..Len(calls) : i < j => calls[i] < calls[j]
    /\ pc = "parse" => (Len(outcomes) = idx /\ calls[Len(calls)] = idx + 1)
    /\ pc = "call" => Len(outcomes) = idx

OncePerUnit ==
    /\ InvokedInOrder
    /\ pc = "store" => calls = Upto(n_units)

\* C6 as amended: the model is invoked strictly in sequence and at most once
\* per unit: the invocations are those of the units that could be decoded (every
\* page of a PDF, the one image of an image upload, and the embedded images of
\* a DOCX except those that fail to decode, which are skipped with a warning
\* and never sent), in increasing order, none twice, no unit tried again after
\* a failure, and a unit is invoked only when every earlier unit has been
\* handled.
RECURSIVE Decoded(_, _)
Decoded(outs, k) ==
    IF k = 0 THEN <<>>
    ELSE Decoded(outs, k - 1) \o (IF outs[k] # Undecodable THEN <<k>> ELSE <<>>)

OncePerDecodedUnit ==
    /\ InvokedInOrder
    /\ pc \in {"call", "store", "idle"} => calls = Decoded(outcomes, Len(outcomes))
    /\ pc = "parse" => calls = Append(Decoded(outcomes, Len(outcomes)), idx + 1)
    /\ (pc = "store" /\ path # "none") => Len(outcomes) = n_units
    /\ path \in {"image", "pdf"} =>
         \A k \in 1..Len(outcomes) : outcomes[k] # Undecodable

\* A DOCX with two embedded images: the first could not be decoded, the
\* second was sent to the model after the first had been handled.
OncePerDecodedUnitWitness ==
    /\ path = "docx"
    /\ pc = "store"
    /\ n_units = 2
    /\ outcomes[1] = Undecodable
    /\ calls = <<2>>

-----------------------------------------------------------------------------
\* C7: after any sequence of runs the stored result is the result of the
\* most recent run alone: the stored text and the stored tables are what
\* that run's own units and document give, starting from an empty text and
\* an empty table list, with nothing of an earlier run left, also when the
\* later run extracted nothing.
StoredIsLastRun ==
    /\ pc = "store" => (text_result = RunText /\ table_result = RunTables)
    /\ (pc = "idle" /\ stored) =>
         /\ extracted_text = RunText
         /\ extracted_tables = RunTables
         /\ extracted_text = text_result
         /\ extracted_tables = table_result

\* A run that called the model and extracted nothing has replaced an
\* earlier, non-empty result.
StoredIsLastRunWitness ==
    /\ pc = "idle"
    /\ stored
    /\ path # "none"
    /\ calls # <<>>
    /\ overwrote
    /\ extracted_text = <<>>
    /\ extracted_tables = <<>>

-----------------------------------------------------------------------------
\* C8: the dispatcher takes exactly one path per run, chosen by the file's
\* extension: .jpg/.jpeg/.png the single-image path (one model call, the text
\* of the parsed object, and one table titled "Table from Image" exactly when
\* the parsed table is not empty), .pdf the PDF extractor, .docx the DOCX
\* extractor with the embedded-image prompt; any other extension calls no
\* model and gives the empty result; no run takes two paths.
PdfUntouched == aggregated_text = <<>> /\ aggregated_tables = <<>>
DocxUntouched == full_text = <<>> /\ all_tables_data = <<>>

OnePathPerRun ==
    pc = "store" =>
      /\ file_extension \in {".jpg", ".jpeg", ".png"} =>
           /\ path = "image"
           /\ prompt = PromptTemplate
           /\ calls = <<1>>
           /\ text_result = ReplyText(outcomes[1])
           /\ table_result =
                (IF ReplyTable(outcomes[1]) # <<>>
                 THEN <<[title |-> TableFromImage, data |-> ReplyTable(outcomes[1])]>>
                 ELSE <<>>)
           /\ PdfUntouched /\ DocxUntouched
      /\ file_extension = ".pdf" =>
           /\ path = "pdf"
           /\ prompt = PromptTemplate
           /\ text_result = aggregated_text
           /\ table_result = aggregated_tables
           /\ calls = Upto(n_units)
           /\ DocxUntouched
      /\ file_extension = ".docx" =>
           /\ path = "docx"
           /\ prompt = PromptForEmbeds
           /\ table_result = all_tables_data
           /\ text_result = RunText
           /\ PdfUntouched
      /\ file_extension \notin {".jpg", ".jpeg", ".png", ".pdf", ".docx"} =>
           /\ path = "none"
           /\ calls = <<>>
           /\ text_result = <<>>
           /\ table_result = <<>>
           /\ PdfUntouched /\ DocxUntouched

\* A .jpeg upload whose reply gave text and a table.
OnePathPerRunWitness ==
    /\ pc = "store"
    /\ file_extension = ".jpeg"
    /\ calls = <<1>>
    /\ text_result = Hello
    /\ Titles(table_result) = <<TableFromImage>>

-----------------------------------------------------------------------------
\* C9: export.  A CSV download is produced for exactly the tables whose data
\* has at least 2 rows, the first row as its header and the others as its
\* data, and none for a table of 0 or 1 rows; the TXT download holds a
\* titled section for every table, whatever its row count, in the order of
\* the table list.
CsvKeys == {csv_files[i].key : i \in 1..Len(csv_files)}

CsvForEveryTwoRowTable ==
    (pc = "idle" /\ stored) =>
      /\ CsvKeys = {i - 1 : i \in {j \in 1..Len(extracted_tables) :
                                     Len(extracted_tables[j].data) >= 2}}
      /\ \A i \in 1..Len(csv_files) :
           LET data == extracted_tables[csv_files[i].key + 1].data
           IN  /\ csv_files[i].header = data[1]
               /\ Len(csv_files[i].rows) = Len(data) - 1
      /\ Len(txt_content.sections) = Len(extracted_tables)
      /\ \A i \in 1..Len(extracted_tables) :
           txt_content.sections[i].title = extracted_tables[i].title

-----------------------------------------------------------------------------
\* C10: in every result a run produces the table titles are pairwise
\* distinct, and so are the CSV file names made from them: at most one
\* "Table from Page N" per page N, at most one "Native Table i" and one
\* "Table from Embedded Image i" per index i, at most one "Table from Image".
Distinct(seq) == \A i, j \in 1..Len(seq) : i # j => seq[i] # seq[j]

FileNames(tables) == [i \in 1..Len(tables) |-> SafeFilename(tables[i].title)]

TitlesDistinct ==
    /\ Distinct(Titles(table_result))
    /\ Distinct(Titles(extracted_tables))
    /\ Distinct(FileNames(table_result))
    /\ Distinct(FileNames(extracted_tables))
    /\ Distinct([i \in 1..Len(csv_files) |-> csv_files[i].file_name])
    /\ pc = "store" =>
         \A i \in 1..Len(table_result) :
           LET title == table_result[i].title
           IN  \/ path = "image" /\ title = TableFromImage
               \/ path = "pdf" /\ \E k \in 1..n_units : title = TableFromPage(k)
               \/ path = "docx" /\ \E k \in 1..n_units :
                                      title = TableFromEmbeddedImage(k)
               \/ path = "docx" /\ \E k \in 1..Len(doc_tables) :
                                      title = NativeTable(k)

\* A stored two-page PDF result with a table from each page and a CSV file
\* for one of them.
TitlesDistinctWitness ==
    /\ pc = "idle"
    /\ stored
    /\ Titles(extracted_tables) = <<TableFromPage(1), TableFromPage(2)>>
    /\ \E i \in 1..Len(csv_files) :
         csv_files[i].file_name =
           <<"t","a","b","l","e","_","f","r","o","m","_","p","a","g","e","_","2",
             ".","c","s","v">>

====
